---- MODULE Spec2Model ----
(***************************************************************************)
(* Workflow orchestration and registry subsystem of backend/orchestrator.  *)
(*                                                                         *)
(* WorkflowRegistry is a dict guarded by one asyncio.Lock; the             *)
(* OrchestrationManager drives run_workflow / cancel_workflow / queries    *)
(* against it.  Every operation is a coroutine on one asyncio event loop:  *)
(* a coroutine runs until it suspends, and it suspends only where an await *)
(* really blocks (the Stage Runner call, or a lock somebody holds).        *)
(***************************************************************************)
EXTENDS Integers, Sequences, FiniteSets, TLC

VARIABLES _workflows, _lock, clock, running, co, caller

vars == <<_workflows, _lock, clock, running, co, caller>>

(***************************************************************************)
(* Bounds of the model.                                                    *)
(***************************************************************************)
\* clock readings are 0 .. MaxHours whole hours, in seconds
MaxHours == 1
\* cap on the task list a direct caller of add_task_result builds
MaxTasks == 2
\* the number of calls the callers make in one behaviour
MaxCalls == 3

(***************************************************************************)
(* Values.                                                                 *)
(***************************************************************************)
\* Optional[...]: None is the empty tuple, a present value x is <<x>>
None == <<>>

Some(x) == <<x>>

\* an empty dict: the function with the empty domain
EmptyDict == [k \in {} |-> None]

\* Python truthiness of an Optional[Dict]: None and {} are falsy
Truthy(opt) == opt # None /\ DOMAIN opt[1] # {}

\* d[k] = v on a dict (insert or overwrite)
DictSet(d, k, v) == [x \in DOMAIN d \cup {k} |-> IF x = k THEN v ELSE d[x]]

\* class WorkflowStatus
PENDING == "pending"

RUNNING == "running"

COMPLETED == "completed"

FAILED == "failed"

CANCELED == "canceled"

TIMEOUT == "timeout"

WorkflowStatus == {PENDING, RUNNING, COMPLETED, FAILED, CANCELED, TIMEOUT}

\* workflow ids (proposal ids) the callers use
Ids == {"W1", "W2"}

\* the classifications the Stage Runner's routing can return
WorkflowTypes == {"standard", "expedited"}

\* max_age_hours * 3600
SecondsPerHour == 3600

\* asyncio.get_event_loop().time(): the readings of the monotonic clock, which
\* the model takes at whole hours
Clock == {h * SecondsPerHour : h \in 0..MaxHours}

\* the coroutines (request handlers) that can be alive at the same time
Procs == {1, 2}

\* @dataclass WorkflowTaskResult
WorkflowTaskResult(task_id, agent_type, status, result, error, processing_time_ms) ==
    [task_id |-> task_id, agent_type |-> agent_type, status |-> status,
     result |-> result, error |-> error, processing_time_ms |-> processing_time_ms]

\* f"{proposal_id}-{agent_type}"
TaskId(proposal_id, suffix) == proposal_id \o "-" \o suffix

(***************************************************************************)
(* WorkflowRegistry: the bodies of the critical sections, as functions of  *)
(* the dict w and of the clock readings the body takes.                    *)
(***************************************************************************)
\* a faulty register_workflow that leaves the new record RUNNING
register_workflow_running(w, workflow_id, workflow_type, t1, t2) ==
    DictSet(w, workflow_id,
            [id |-> workflow_id, type |-> workflow_type, status |-> RUNNING,
             tasks |-> <<>>, created_at |-> t1, updated_at |-> t2,
             completed_at |-> None, results |-> EmptyDict])

\* a faulty register_workflow that merges into the record the id already has
register_workflow_merge(w, workflow_id, workflow_type, t1, t2) ==
    IF workflow_id \in DOMAIN w
    THEN [w EXCEPT ![workflow_id] =
            [@ EXCEPT !.type = workflow_type, !.status = PENDING,
                      !.updated_at = t2]]
    ELSE DictSet(w, workflow_id,
                 [id |-> workflow_id, type |-> workflow_type, status |-> PENDING,
                  tasks |-> <<>>, created_at |-> t1, updated_at |-> t2,
                  completed_at |-> None, results |-> EmptyDict])

\* a faulty register_workflow that starts a new dict with the record
register_workflow_alone(w, workflow_id, workflow_type, t1, t2) ==
    DictSet(EmptyDict, workflow_id,
            [id |-> workflow_id,
             type |-> workflow_type,
             status |-> PENDING,
             tasks |-> <<>>,
             created_at |-> t1,
             updated_at |-> t2,
             completed_at |-> None,
             results |-> EmptyDict])

\* register_workflow: t1 and t2 are its two clock readings
register_workflow(w, workflow_id, workflow_type, t1, t2) ==
    DictSet(w, workflow_id,
            [id |-> workflow_id,
             type |-> workflow_type,
             status |-> PENDING,
             tasks |-> <<>>,
             created_at |-> t1,
             updated_at |-> t2,
             completed_at |-> None,
             results |-> EmptyDict])

\* a faulty terminal test that takes CANCELED for terminal too
SetsCompletedAtCanceled(status) ==
    status = COMPLETED \/ status = FAILED \/ status = CANCELED

\* the terminal test of update_workflow_status
SetsCompletedAt(status) == status = COMPLETED \/ status = FAILED

\* a faulty update_workflow_status that creates the record it does not find
update_workflow_status_upsert(w, workflow_id, status, t1, t2) ==
    DictSet(w, workflow_id,
            IF workflow_id \in DOMAIN w
            THEN [w[workflow_id] EXCEPT
                    !.status = status,
                    !.updated_at = t1,
                    !.completed_at = IF status = COMPLETED \/ status = FAILED
                                     THEN Some(t2) ELSE @]
            ELSE [id |-> workflow_id, type |-> "standard", status |-> status,
                  tasks |-> <<>>, created_at |-> t1, updated_at |-> t1,
                  completed_at |-> None, results |-> EmptyDict])

\* a faulty update_workflow_status that stamps updated_at with the epoch
update_workflow_status_epoch(w, workflow_id, status, t1, t2) ==
    IF workflow_id \in DOMAIN w
    THEN [w EXCEPT ![workflow_id] =
            [@ EXCEPT !.status = status,
                      !.updated_at = 0,
                      !.completed_at = IF SetsCompletedAt(status)
                                       THEN Some(t2) ELSE @]]
    ELSE w

\* a hardened update_workflow_status that leaves a CANCELED record CANCELED
update_workflow_status_guarded(w, workflow_id, status, t1, t2) ==
    IF workflow_id \in DOMAIN w /\ w[workflow_id].status # CANCELED
    THEN [w EXCEPT ![workflow_id] =
            [@ EXCEPT !.status = status,
                      !.updated_at = t1,
                      !.completed_at = IF SetsCompletedAt(status)
                                       THEN Some(t2) ELSE @]]
    ELSE w

\* update_workflow_status: t1 is read for updated_at, t2 for completed_at
update_workflow_status(w, workflow_id, status, t1, t2) ==
    IF workflow_id \in DOMAIN w
    THEN [w EXCEPT ![workflow_id] =
            [@ EXCEPT !.status = status,
                      !.updated_at = t1,
                      !.completed_at = IF SetsCompletedAt(status)
                                       THEN Some(t2) ELSE @]]
    ELSE w

\* a faulty add_task_result that creates the record it does not find
add_task_result_setdefault(w, workflow_id, task_result, t1) ==
    IF workflow_id \in DOMAIN w
    THEN [w EXCEPT ![workflow_id] =
            [@ EXCEPT !.tasks = Append(@, task_result),
                      !.updated_at = t1,
                      !.results = IF Truthy(task_result.result)
                                  THEN DictSet(@, task_result.agent_type,
                                               task_result.result[1])
                                  ELSE @]]
    ELSE DictSet(w, workflow_id,
                 [id |-> workflow_id, type |-> "standard", status |-> PENDING,
                  tasks |-> <<task_result>>, created_at |-> t1,
                  updated_at |-> t1, completed_at |-> None,
                  results |-> EmptyDict])

\* a faulty add_task_result that starts the results map anew with each task
add_task_result_resets(w, workflow_id, task_result, t1) ==
    IF workflow_id \in DOMAIN w
    THEN [w EXCEPT ![workflow_id] =
            [@ EXCEPT !.tasks = Append(@, task_result),
                      !.updated_at = t1,
                      !.results = IF Truthy(task_result.result)
                                  THEN DictSet(EmptyDict, task_result.agent_type,
                                               task_result.result[1])
                                  ELSE @]]
    ELSE w

\* a faulty add_task_result that tests "result is not None": an empty
\* result is stored too
add_task_result_not_none(w, workflow_id, task_result, t1) ==
    IF workflow_id \in DOMAIN w
    THEN [w EXCEPT ![workflow_id] =
            [@ EXCEPT !.tasks = Append(@, task_result),
                      !.updated_at = t1,
                      !.results = IF task_result.result # None
                                  THEN DictSet(@, task_result.agent_type,
                                               task_result.result[1])
                                  ELSE @]]
    ELSE w

\* add_task_result: t1 is read for updated_at
add_task_result(w, workflow_id, task_result, t1) ==
    IF workflow_id \in DOMAIN w
    THEN [w EXCEPT ![workflow_id] =
            [@ EXCEPT !.tasks = Append(@, task_result),
                      !.updated_at = t1,
                      !.results = IF Truthy(task_result.result)
                                  THEN DictSet(@, task_result.agent_type,
                                               task_result.result[1])
                                  ELSE @]]
    ELSE w

\* get_workflow: self._workflows.get(workflow_id)
get_workflow(w, workflow_id) ==
    IF workflow_id \in DOMAIN w THEN Some(w[workflow_id]) ELSE None

\* get_all_workflows: list(self._workflows.values()), as the set of the
\* records (their order in the list is left out)
get_all_workflows(w) == {w[i] : i \in DOMAIN w}

\* a faulty age test: age >= max_age in place of age > max_age
to_remove_inclusive(w, now, max_age_hours) ==
    {i \in DOMAIN w : now - w[i].created_at >= max_age_hours * 3600}

\* the ids cleanup_old_workflows collects in to_remove
to_remove(w, now, max_age_hours) ==
    {i \in DOMAIN w : now - w[i].created_at > max_age_hours * SecondsPerHour}

\* cleanup_old_workflows: the dict it leaves
cleanup_old_workflows(w, now, max_age_hours) ==
    [i \in DOMAIN w \ to_remove(w, now, max_age_hours) |-> w[i]]

\* cleanup_old_workflows: removed_count
removed_count(w, now, max_age_hours) ==
    Cardinality(to_remove(w, now, max_age_hours))

(***************************************************************************)
(* The collaborators the core calls (backend.azure_agents.workflows): the  *)
(* classification and the Stage Runner, by their contract.                 *)
(***************************************************************************)
\* stage payloads (model_dump() dicts); a stage may hand back an empty dict
PayloadCompliant == [status |-> "compliant"]

PayloadScore == [score |-> 85]

PayloadMarket == [price_assessment |-> "Within market average"]

\* proposal_data, as far as the classification reads it
Proposals == {[class |-> "standard"], [class |-> "malformed"]}

\* an exception object: str(e) is its message; origin is where it was raised
Exception(msg, origin) == [msg |-> msg, origin |-> origin]

str(e) == e.msg

\* determine_workflow_type(proposal_data): the type, or the error it raises
determine_workflow_type(proposal_data) ==
    IF proposal_data.class \in WorkflowTypes
    THEN [ok |-> TRUE, value |-> proposal_data.class]
    ELSE [ok |-> FALSE, value |-> Exception("malformed proposal", "classify")]

\* what process_proposal can return: a dict in insertion order, as a
\* sequence of <<key, value>> items
ProcessOutputs ==
    { << <<"compliance", PayloadCompliant>>, <<"evaluation", PayloadScore>>,
         <<"market", PayloadMarket>>,
         <<"recommendation", "Recommend approval with standard oversight">> >>,
      << <<"workflow", "expedited">>, <<"compliance", PayloadCompliant>>,
         <<"evaluation", EmptyDict>>,
         <<"recommendation", "Recommend rejection">> >> }

\* the messages of the errors process_proposal can raise
ProcessErrors == {"Test error"}

\* results.get(key, default) on an items sequence
DictGet(items, key, default) ==
    IF \E j \in 1..Len(items) : items[j][1] = key
    THEN items[CHOOSE j \in 1..Len(items) : items[j][1] = key][2]
    ELSE default

(***************************************************************************)
(* Coroutine frames.  co[p] is the frame of coroutine p: the operation it  *)
(* runs, where it stands (pc, named after the source line it is about to   *)
(* execute), its arguments and locals, and what it gave its caller.        *)
(***************************************************************************)
IdleFrame ==
    [op |-> "idle", pc |-> "idle", id |-> "", arg |-> None, inlock |-> "no",
     workflow_type |-> None, start_time |-> 0, results |-> None, k |-> 0,
     processing_time_ms |-> 0, exc |-> None, workflow |-> None, now |-> 0,
     removed_count |-> 0, outcome |-> None, found |-> FALSE]

\* what a finished coroutine gave its caller
Returned(value) == Some([kind |-> "return", value |-> value])

Raised(e) == Some([kind |-> "raise", value |-> e])

\* the operations of WorkflowRegistry, called directly
RegistryOps == {"register_workflow", "update_workflow_status",
                "add_task_result", "get_workflow", "get_all_workflows",
                "cleanup_old_workflows"}

\* first pc of each operation
Entry(op) ==
    CASE op = "register_workflow" -> "reg78"
      [] op = "update_workflow_status" -> "upd98"
      [] op = "add_task_result" -> "add114"
      [] op = "get_workflow" -> "get133"
      [] op = "cleanup_old_workflows" -> "cl156"
      [] op = "get_all_workflows" -> "all143"
      [] op = "run_workflow" -> "rw212"
      [] op = "get_workflow_status" -> "gs287"
      [] op = "cancel_workflow" -> "cw336"
      [] op = "cleanup_workflows" -> "cl156"
      [] op = "api.create_workflow" -> "cr97"
      [] op = "api.get_workflow_status" -> "gs287"
      [] op = "api.list_workflows" -> "ga310"
      [] op = "api.cancel_workflow" -> "cw336"
      [] op = "api.get_workflow_result" -> "gr224"
      [] op = "api.run_workflow_sync" -> "rw212"

\* the keys run_workflow does not turn into task results
NotAStage == {"workflow", "recommendation"}

\* the next item at or after k of the for loop that passes its if
NextStage(items, k) ==
    IF \E j \in k..Len(items) : items[j][1] \notin NotAStage
    THEN CHOOSE j \in k..Len(items) :
            /\ items[j][1] \notin NotAStage
            /\ \A i \in k..(j - 1) : items[i][1] \in NotAStage
    ELSE Len(items) + 1

\* the task result run_workflow builds for item k of results
StageTask(f) ==
    WorkflowTaskResult(TaskId(f.id, f.results[1][f.k][1]),
                       f.results[1][f.k][1],
                       "completed",
                       Some(f.results[1][f.k][2]),
                       None,
                       Some(f.processing_time_ms \div Len(f.results[1])))

\* the task result of the except branch
ErrorTask(f) ==
    WorkflowTaskResult(TaskId(f.id, "error"), "orchestrator", "failed",
                       None, Some(str(f.exc[1])), None)

\* the pcs at which a frame is about to call a WorkflowRegistry method
CallSites == {"reg78", "upd98", "add114", "get133", "all143", "cl160",
              "rw215", "rw218", "rw243", "rw246", "rw263", "rw272",
              "gs287", "cw336", "cw345", "ga310", "cr100", "gr224"}

\* the WorkflowRegistry call frame f makes at its pc: method and arguments
CallSite(f) ==
    CASE f.pc = "reg78" -> [fn |-> "register_workflow", id |-> f.id, arg |-> f.arg]
      [] f.pc = "upd98" -> [fn |-> "update_workflow_status", id |-> f.id, arg |-> f.arg]
      [] f.pc = "add114" -> [fn |-> "add_task_result", id |-> f.id, arg |-> f.arg]
      [] f.pc = "get133" -> [fn |-> "get_workflow", id |-> f.id, arg |-> None]
      [] f.pc = "all143" -> [fn |-> "get_all_workflows", id |-> f.id, arg |-> None]
      [] f.pc = "cl160" -> [fn |-> "cleanup_old_workflows", id |-> f.id, arg |-> f.arg]
      [] f.pc = "rw215" -> [fn |-> "register_workflow", id |-> f.id, arg |-> f.workflow_type[1]]
      [] f.pc = "rw218" -> [fn |-> "update_workflow_status", id |-> f.id, arg |-> RUNNING]
      [] f.pc = "rw243" -> [fn |-> "add_task_result", id |-> f.id, arg |-> StageTask(f)]
      [] f.pc = "rw246" -> [fn |-> "update_workflow_status", id |-> f.id, arg |-> COMPLETED]
      [] f.pc = "rw263" -> [fn |-> "update_workflow_status", id |-> f.id, arg |-> FAILED]
      [] f.pc = "rw272" -> [fn |-> "add_task_result", id |-> f.id, arg |-> ErrorTask(f)]
      [] f.pc = "gs287" -> [fn |-> "get_workflow", id |-> f.id, arg |-> None]
      [] f.pc = "cw336" -> [fn |-> "get_workflow", id |-> f.id, arg |-> None]
      [] f.pc = "cw345" -> [fn |-> "update_workflow_status", id |-> f.id, arg |-> CANCELED]
      [] f.pc = "ga310" -> [fn |-> "get_all_workflows", id |-> f.id, arg |-> None]
      [] f.pc = "cr100" -> [fn |-> "register_workflow", id |-> f.id, arg |-> f.workflow_type[1]]
      [] f.pc = "gr224" -> [fn |-> "get_workflow", id |-> f.id, arg |-> None]
      [] OTHER -> [fn |-> "none", id |-> f.id, arg |-> None]

\* the frame of a coroutine that has finished: its locals are gone, what it
\* gave its caller stays
Done(f, outcome) ==
    [IdleFrame EXCEPT !.op = f.op, !.pc = "done", !.id = f.id, !.arg = f.arg,
                      !.found = f.found, !.outcome = outcome]

\* the frame after the WorkflowRegistry call made at f.pc has returned ret;
\* found tells whether the dict held f.id when the call was made
AfterCall(f, ret, found) ==
    LET g == [f EXCEPT !.inlock = "no", !.found = found] IN
    CASE f.pc \in {"reg78", "upd98", "add114", "get133", "all143"} ->
            Done(g, Returned(ret))
      [] f.pc = "cl160" /\ f.op = "cleanup_old_workflows" -> Done(g, Returned(ret))
      [] f.pc = "cl160" /\ f.op = "cleanup_workflows" ->
            [g EXCEPT !.pc = "cl366", !.removed_count = ret]
      [] f.pc = "rw215" -> [g EXCEPT !.pc = "rw218"]
      [] f.pc = "rw218" -> [g EXCEPT !.pc = "rw221"]
      [] f.pc = "rw243" ->
            [g EXCEPT !.k = NextStage(f.results[1], f.k + 1),
                      !.pc = IF NextStage(f.results[1], f.k + 1) <= Len(f.results[1])
                             THEN "rw243" ELSE "rw246"]
      [] f.pc = "rw246" -> [g EXCEPT !.pc = "rw249"]
      [] f.pc = "rw263" -> [g EXCEPT !.pc = "rw272"]
      [] f.pc = "rw272" -> [g EXCEPT !.pc = "rw275"]
      [] f.pc = "gs287" -> [g EXCEPT !.pc = "gs289", !.workflow = ret]
      [] f.pc = "cw336" -> [g EXCEPT !.pc = "cw338", !.workflow = ret]
      [] f.pc = "cw345" -> [g EXCEPT !.pc = "cw348"]
      [] f.pc = "ga310" -> [g EXCEPT !.pc = "ga313", !.workflow = ret]
      [] f.pc = "cr100" -> [g EXCEPT !.pc = "cr117"]
      [] f.pc = "gr224" -> [g EXCEPT !.pc = "gr226", !.workflow = ret]

\* a faulty schedule: the loop turns away from p after each registry call
StillRunningYields(p, f) == 0

\* a faulty loop that takes the coroutine off after its FAILED write
StillRunningUntilFailed(p, f) == IF f.pc \in {"done", "rw272"} THEN 0 ELSE p

\* the event loop keeps running p unless p has finished
StillRunning(p, f) == IF f.pc = "done" THEN 0 ELSE p

(***************************************************************************)
(* The event loop.  running is the coroutine the loop is executing (0: the *)
(* loop is between callbacks); only that coroutine moves, until it         *)
(* suspends or finishes.                                                   *)
(***************************************************************************)
Init ==
    /\ _workflows = EmptyDict
    /\ _lock = FALSE
    /\ clock = 0
    /\ running = 0
    /\ co = [p \in Procs |-> IdleFrame]
    /\ caller = [ncalls |-> 0, prev |-> None]

\* the monotonic clock moves on to its next reading; a callback of the loop
\* runs within one reading, time passes while the loop waits
Tick ==
    /\ running = 0
    /\ clock + SecondsPerHour \in Clock
    /\ clock' = clock + SecondsPerHour
    /\ UNCHANGED <<_workflows, _lock, running, co, caller>>

\* a frame that holds no live coroutine
Free(f) == f.pc \in {"idle", "done"}

\* the frames once the loop turns to its next callback: the outcomes of the
\* finished coroutines have gone to their callers
Collected(c) == [q \in Procs |-> IF c[q].pc = "done" THEN IdleFrame ELSE c[q]]

\* a caller starts operation op(id, arg) as coroutine p, the first free frame
Start(p, op, id, arg) ==
    /\ running = 0
    /\ caller.ncalls < MaxCalls
    /\ Free(co[p])
    /\ \A q \in Procs : q < p => ~ Free(co[q])
    /\ co' = [Collected(co) EXCEPT
                ![p] = [IdleFrame EXCEPT !.op = op, !.pc = Entry(op),
                                         !.id = id, !.arg = arg]]
    /\ running' = p
    /\ UNCHANGED <<_workflows, _lock, clock>>

\* async with self._lock: asyncio.Lock.acquire takes a free lock without
\* suspending, and suspends the coroutine while the lock is held
Acquire(p) ==
    /\ co[p].pc \in CallSites
    /\ co[p].inlock # "held"
    /\ running = (IF co[p].inlock = "wait" THEN 0 ELSE p)
    /\ IF _lock
       THEN /\ co' = [co EXCEPT ![p].inlock = "wait"]
            /\ running' = 0
            /\ UNCHANGED _lock
       ELSE /\ co' = [co EXCEPT ![p].inlock = "held"]
            /\ running' = p
            /\ _lock' = TRUE
    /\ UNCHANGED <<_workflows, clock, caller>>

\* p is inside the critical section of the registry method fn
InBody(p, fn) ==
    /\ running = p
    /\ co[p].inlock = "held"
    /\ CallSite(co[p]).fn = fn

\* a faulty release that leaves the guard taken
LeaveKeepsLock(p, ret) ==
    /\ _lock' = TRUE
    /\ co' = [co EXCEPT ![p] = AfterCall(co[p], ret,
                                         co[p].id \in DOMAIN _workflows)]
    /\ running' = StillRunning(p, co'[p])
    /\ UNCHANGED caller

\* leaving the critical section: the lock is released, the call returns ret
Leave(p, ret) ==
    /\ _lock' = FALSE
    /\ co' = [co EXCEPT ![p] = AfterCall(co[p], ret,
                                         co[p].id \in DOMAIN _workflows)]
    /\ running' = StillRunning(p, co'[p])
    /\ UNCHANGED caller

RegisterBody(p) ==
    /\ InBody(p, "register_workflow")
    /\ _workflows' = register_workflow(_workflows, CallSite(co[p]).id,
                                       CallSite(co[p]).arg, clock, clock)
    /\ UNCHANGED clock
    /\ Leave(p, None)

UpdateStatusBody(p) ==
    /\ InBody(p, "update_workflow_status")
    /\ _workflows' = update_workflow_status(_workflows, CallSite(co[p]).id,
                                            CallSite(co[p]).arg, clock, clock)
    /\ UNCHANGED clock
    /\ Leave(p, None)

AddTaskResultBody(p) ==
    /\ InBody(p, "add_task_result")
    /\ _workflows' = add_task_result(_workflows, CallSite(co[p]).id,
                                     CallSite(co[p]).arg, clock)
    /\ UNCHANGED clock
    /\ Leave(p, None)

GetWorkflowBody(p) ==
    /\ InBody(p, "get_workflow")
    /\ UNCHANGED <<_workflows, clock>>
    /\ Leave(p, get_workflow(_workflows, CallSite(co[p]).id))

GetAllBody(p) ==
    /\ InBody(p, "get_all_workflows")
    /\ UNCHANGED <<_workflows, clock>>
    /\ Leave(p, get_all_workflows(_workflows))

\* cleanup_old_workflows, line 156: now is read before the lock is taken
CleanupReadClock(p) ==
    /\ running = p
    /\ co[p].pc = "cl156"
    /\ co' = [co EXCEPT ![p].now = clock, ![p].pc = "cl160"]
    /\ UNCHANGED <<_workflows, _lock, clock, running, caller>>

CleanupBody(p) ==
    /\ InBody(p, "cleanup_old_workflows")
    /\ _workflows' = cleanup_old_workflows(_workflows, co[p].now,
                                           CallSite(co[p]).arg)
    /\ UNCHANGED clock
    /\ Leave(p, removed_count(_workflows, co[p].now, CallSite(co[p]).arg))

(***************************************************************************)
(* OrchestrationManager.                                                   *)
(***************************************************************************)
\* raise ValueError(f"Workflow {workflow_id} not found")
NotFoundError(workflow_id) ==
    Exception("Workflow " \o workflow_id \o " not found", "manager")

\* raise ValueError(f"Cannot cancel workflow with status {workflow['status']}")
InvalidStateError(status) ==
    Exception("Cannot cancel workflow with status " \o status, "manager")

\* HTTPException(status_code=..., detail=...)
HTTPException(status_code, detail) ==
    [status_code |-> status_code, detail |-> detail]

\* what the handler of api.py that frame f runs makes of the outcome of the
\* manager call it awaits (its except clauses); the calls made without a
\* handler keep their outcome
Surface(f, outcome) ==
    CASE f.op = "api.get_workflow_status" /\ outcome[1].kind = "raise" ->
            Raised(HTTPException(404, str(outcome[1].value)))
      [] f.op = "api.cancel_workflow" /\ outcome[1].kind = "raise" ->
            Raised(HTTPException(400, str(outcome[1].value)))
      [] f.op = "api.run_workflow_sync" /\ outcome[1].kind = "raise" ->
            Raised(HTTPException(500, "Error running sync workflow: "
                                         \o str(outcome[1].value)))
      [] f.op = "api.create_workflow" /\ f.outcome # None -> f.outcome
      [] OTHER -> outcome

\* p finishes: its caller gets outcome
Finish(p, outcome) ==
    /\ co' = [co EXCEPT ![p] = Done(co[p], Surface(co[p], outcome))]
    /\ running' = 0
    /\ UNCHANGED <<_workflows, _lock, clock, caller>>

\* p moves on to frame g without touching the registry or the clock
Step(p, g) ==
    /\ co' = [co EXCEPT ![p] = g]
    /\ UNCHANGED <<_workflows, _lock, clock, running, caller>>

\* run_workflow, line 212: a classification that raises enters the except
Classify(p) ==
    /\ running = p
    /\ co[p].pc = "rw212"
    /\ LET r == determine_workflow_type(co[p].arg) IN
       Step(p, IF r.ok
               THEN [co[p] EXCEPT !.workflow_type = Some(r.value), !.pc = "rw215"]
               ELSE [co[p] EXCEPT !.exc = Some(r.value), !.pc = "rw263"])

\* a faulty run_workflow that awaits the Stage Runner inside the registry's
\* lock
CallProcessHoldingLock(p) ==
    /\ running = p
    /\ co[p].pc = "rw221"
    /\ co' = [co EXCEPT ![p].start_time = clock, ![p].pc = "rw224"]
    /\ running' = 0
    /\ _lock' = TRUE
    /\ UNCHANGED <<_workflows, clock, caller>>

\* lines 221-228: start_time is read, process_proposal is awaited: p suspends
CallProcess(p) ==
    /\ running = p
    /\ co[p].pc = "rw221"
    /\ co' = [co EXCEPT ![p].start_time = clock, ![p].pc = "rw224"]
    /\ running' = 0
    /\ UNCHANGED <<_workflows, _lock, clock, caller>>

\* the Stage Runner hands back its result: the loop resumes p
ProcessReturns(p, out) ==
    /\ running = 0
    /\ co[p].pc = "rw224"
    /\ co' = [Collected(co) EXCEPT ![p].results = Some(out), ![p].pc = "rw231"]
    /\ running' = p
    /\ UNCHANGED <<_workflows, _lock, clock, caller>>

\* a faulty run_workflow without the except clause: what the Stage Runner
\* raises goes straight to the caller
ProcessRaisesUnhandled(p, msg) ==
    /\ running = 0
    /\ co[p].pc = "rw224"
    /\ co' = [Collected(co) EXCEPT ![p].exc = Some(Exception(msg, "process")),
                                   ![p].pc = "rw275"]
    /\ running' = p
    /\ UNCHANGED <<_workflows, _lock, clock, caller>>

\* the Stage Runner raises: the loop resumes p in its except branch
ProcessRaises(p, msg) ==
    /\ running = 0
    /\ co[p].pc = "rw224"
    /\ co' = [Collected(co) EXCEPT ![p].exc = Some(Exception(msg, "process")),
                                   ![p].pc = "rw263"]
    /\ running' = p
    /\ UNCHANGED <<_workflows, _lock, clock, caller>>

\* line 231, and the for loop's way to its first stage
ProcessingTime(p) ==
    /\ running = p
    /\ co[p].pc = "rw231"
    /\ co' = [co EXCEPT
                ![p].processing_time_ms = (clock - co[p].start_time) * 1000,
                ![p].k = NextStage(co[p].results[1], 1),
                ![p].pc = IF NextStage(co[p].results[1], 1)
                               <= Len(co[p].results[1])
                          THEN "rw243" ELSE "rw246"]
    /\ UNCHANGED <<_workflows, _lock, clock, running, caller>>

\* a faulty get_workflow_status that hands the results map out as it is
StatusDictUnfiltered(workflow_id, workflow) ==
    [id |-> workflow_id,
     status |-> workflow.status,
     type |-> workflow.type,
     created_at |-> workflow.created_at,
     updated_at |-> workflow.updated_at,
     completed_at |-> workflow.completed_at,
     task_count |-> Len(workflow.tasks),
     results |-> workflow.results]

\* a faulty aggregation that reads evaluation from the compliance key
CombinedResultsSwapped(f) ==
    [proposal_id |-> f.id,
     compliance |-> DictGet(f.results[1], "compliance", EmptyDict),
     evaluation |-> DictGet(f.results[1], "compliance", EmptyDict),
     market |-> DictGet(f.results[1], "market", EmptyDict),
     recommendation |-> DictGet(f.results[1], "recommendation", ""),
     processing_time_ms |-> f.processing_time_ms,
     workflow_type |-> f.workflow_type[1]]

\* the dict run_workflow returns, lines 249-257
CombinedResults(f) ==
    [proposal_id |-> f.id,
     compliance |-> DictGet(f.results[1], "compliance", EmptyDict),
     evaluation |-> DictGet(f.results[1], "evaluation", EmptyDict),
     market |-> DictGet(f.results[1], "market", EmptyDict),
     recommendation |-> DictGet(f.results[1], "recommendation", ""),
     processing_time_ms |-> f.processing_time_ms,
     workflow_type |-> f.workflow_type[1]]

ReturnResults(p) ==
    /\ running = p
    /\ co[p].pc = "rw249"
    /\ Finish(p, Returned(CombinedResults(co[p])))

\* a faulty except branch that ends without its raise
ReraiseSwallow(p) ==
    /\ running = p
    /\ co[p].pc = "rw275"
    /\ Finish(p, Returned(None))

\* line 275: raise
Reraise(p) ==
    /\ running = p
    /\ co[p].pc = "rw275"
    /\ Finish(p, Raised(co[p].exc[1]))

\* the dict get_workflow_status returns, lines 292-301
StatusDict(workflow_id, workflow) ==
    [id |-> workflow_id,
     status |-> workflow.status,
     type |-> workflow.type,
     created_at |-> workflow.created_at,
     updated_at |-> workflow.updated_at,
     completed_at |-> workflow.completed_at,
     task_count |-> Len(workflow.tasks),
     results |-> [k \in DOMAIN workflow.results \ {"recommendation"} |->
                    workflow.results[k]]]

\* get_workflow_status, lines 289-301
StatusResult(p) ==
    /\ running = p
    /\ co[p].pc = "gs289"
    /\ Finish(p, IF co[p].workflow = None
                 THEN Raised(NotFoundError(co[p].id))
                 ELSE Returned(StatusDict(co[p].id, co[p].workflow[1])))

\* a faulty test that lets a PENDING workflow be canceled
CancelablePending(workflow) == workflow.status \in {RUNNING, PENDING}

\* the test of cancel_workflow, line 341
Cancelable(workflow) == workflow.status = RUNNING

\* a faulty cancel_workflow that reads workflow["status"] before it tests for
\* None
CancelCheckStatusFirst(p) ==
    /\ running = p
    /\ co[p].pc = "cw338"
    /\ IF co[p].workflow = None
       THEN Finish(p, Raised(Exception("'NoneType' object is not subscriptable",
                                       "manager")))
       ELSE IF ~ Cancelable(co[p].workflow[1])
            THEN Finish(p, Raised(InvalidStateError(co[p].workflow[1].status)))
            ELSE Step(p, [co[p] EXCEPT !.pc = "cw345"])

\* a faulty cancel_workflow that is suspended between its test and its write
CancelCheckYields(p) ==
    /\ running = p
    /\ co[p].pc = "cw338"
    /\ IF co[p].workflow = None
       THEN Finish(p, Raised(NotFoundError(co[p].id)))
       ELSE IF ~ Cancelable(co[p].workflow[1])
            THEN Finish(p, Raised(InvalidStateError(co[p].workflow[1].status)))
            ELSE /\ co' = [co EXCEPT ![p].pc = "cw345", ![p].inlock = "wait"]
                 /\ running' = 0
                 /\ UNCHANGED <<_workflows, _lock, clock, caller>>

\* cancel_workflow, lines 338-342
CancelCheck(p) ==
    /\ running = p
    /\ co[p].pc = "cw338"
    /\ IF co[p].workflow = None
       THEN Finish(p, Raised(NotFoundError(co[p].id)))
       ELSE IF ~ Cancelable(co[p].workflow[1])
            THEN Finish(p, Raised(InvalidStateError(co[p].workflow[1].status)))
            ELSE Step(p, [co[p] EXCEPT !.pc = "cw345"])

\* cancel_workflow, lines 348-352
CancelResult(p) ==
    /\ running = p
    /\ co[p].pc = "cw348"
    /\ Finish(p, Returned([id |-> co[p].id, status |-> CANCELED,
                           message |-> "Workflow " \o co[p].id
                                           \o " has been canceled"]))

\* cleanup_workflows, lines 366-369
CleanupResult(p) ==
    /\ running = p
    /\ co[p].pc = "cl366"
    /\ Finish(p, Returned([removed_count |-> co[p].removed_count]))

(***************************************************************************)
(* Callers.                                                                *)
(***************************************************************************)
\* the task results a direct caller of the registry hands to add_task_result
TaskInputs(id) ==
    { WorkflowTaskResult(TaskId(id, "compliance"), "compliance", "completed",
                         Some(PayloadCompliant), None, None),
      WorkflowTaskResult(TaskId(id, "compliance"), "compliance", "completed",
                         Some([status |-> "non-compliant"]), None, None),
      WorkflowTaskResult(TaskId(id, "market"), "market", "completed",
                         Some(EmptyDict), None, None),
      WorkflowTaskResult(TaskId(id, "error"), "orchestrator", "failed",
                         None, Some("Test error"), None) }

\* max_age_hours as callers pass it
MaxAges == {0, 1}

\* the call a finished frame stands for
Summary(f) ==
    IF f.op = "idle" THEN None
    ELSE Some([op |-> f.op, id |-> f.id, arg |-> f.arg, found |-> f.found])

\* nothing is in flight
Quiescent == \A q \in Procs : Free(co[q])

\* the task list of id still has room (the model's cap on its length)
RoomForTask(id) ==
    id \in DOMAIN _workflows => Len(_workflows[id].tasks) < MaxTasks

\* one caller calls the registry method op, one call after the other;
\* caller.prev remembers the call it made before
RegistryCall(op, id, arg) ==
    /\ Start(1, op, id, arg)
    /\ caller' = [ncalls |-> caller.ncalls + 1, prev |-> Summary(co[1])]

\* a request handler calls the manager (or reads the registry), concurrently
\* with the handlers that are suspended
ManagerCall(p, op, id, arg) ==
    /\ Start(p, op, id, arg)
    /\ caller' = [caller EXCEPT !.ncalls = @ + 1]

\* the steps inside WorkflowRegistry
RegistrySteps(p) ==
    \/ Acquire(p)
    \/ RegisterBody(p)
    \/ UpdateStatusBody(p)
    \/ AddTaskResultBody(p)
    \/ GetWorkflowBody(p)
    \/ CleanupReadClock(p)
    \/ CleanupBody(p)

\* the steps of OrchestrationManager
ManagerSteps(p) ==
    \/ Classify(p)
    \/ CallProcess(p)
    \/ \E out \in ProcessOutputs : ProcessReturns(p, out)
    \/ \E msg \in ProcessErrors : ProcessRaises(p, msg)
    \/ ProcessingTime(p)
    \/ ReturnResults(p)
    \/ Reraise(p)
    \/ StatusResult(p)
    \/ CancelCheck(p)
    \/ CancelResult(p)
    \/ CleanupResult(p)

ManagerCalls(p) ==
    \/ \E i \in Ids, d \in Proposals : ManagerCall(p, "run_workflow", i, d)
    \/ \E i \in Ids : ManagerCall(p, "cancel_workflow", i, None)
    \/ \E i \in Ids : ManagerCall(p, "get_workflow_status", i, None)
    \/ \E i \in Ids : ManagerCall(p, "get_workflow", i, None)
    \/ \E i \in Ids : ManagerCall(p, "register_workflow", i, "standard")
    \/ \E h \in MaxAges : ManagerCall(p, "cleanup_workflows", "", h)

(***************************************************************************)
(* Specifications.                                                         *)
(***************************************************************************)
\* request handlers running concurrently on the event loop
Next ==
    \/ \E p \in Procs : ManagerCalls(p) \/ RegistrySteps(p) \/ ManagerSteps(p)
    \/ Tick

Spec == Init /\ [][Next]_vars

\* the same handlers, one request at a time (so that no cancel_workflow
\* ever finds a RUNNING record: CancelResult has no step here)
NextSeq ==
    \/ \E p \in Procs :
          \/ Quiescent /\ ManagerCalls(p)
          \/ RegistrySteps(p)
          \/ Classify(p)
          \/ CallProcess(p)
          \/ \E out \in ProcessOutputs : ProcessReturns(p, out)
          \/ \E msg \in ProcessErrors : ProcessRaises(p, msg)
          \/ ProcessingTime(p)
          \/ ReturnResults(p)
          \/ Reraise(p)
          \/ StatusResult(p)
          \/ CancelCheck(p)
          \/ CleanupResult(p)
    \/ Tick

SpecSeq == Init /\ [][NextSeq]_vars

\* one caller driving the WorkflowRegistry methods directly
NextRegistry ==
    \/ \E i \in Ids, t \in WorkflowTypes : RegistryCall("register_workflow", i, t)
    \/ \E i \in Ids, s \in WorkflowStatus :
          RegistryCall("update_workflow_status", i, s)
    \/ \E i \in Ids : \E task \in TaskInputs(i) :
          RoomForTask(i) /\ RegistryCall("add_task_result", i, task)
    \/ \E i \in Ids : RegistryCall("get_workflow", i, None)
    \/ \E h \in MaxAges : RegistryCall("cleanup_old_workflows", "", h)
    \/ RegistrySteps(1)
    \/ Tick

SpecRegistry == Init /\ [][NextRegistry]_vars

\* a caller of its own that uses the registry and the status query, keeps the
\* dict get_workflow gave it, and writes to the dicts it is given
CallerTasks(id) ==
    { WorkflowTaskResult(TaskId(id, "compliance"), "compliance", "completed",
                         Some(PayloadCompliant), None, None),
      WorkflowTaskResult(TaskId(id, "recommendation"), "recommendation",
                         "completed", Some([text |-> "Recommend approval"]),
                         None, None) }

\* what the caller keeps of the call frame f stands for: the call, and the
\* dict get_workflow returned (the object the registry holds, line 134)
Given(f) ==
    IF f.op = "idle" THEN None
    ELSE Some([op |-> f.op, id |-> f.id, arg |-> f.arg, found |-> f.found,
               given |-> IF f.op = "get_workflow"
                         THEN f.outcome[1].value ELSE None])

\* the dict the caller was given by its previous call, as it reads now: it
\* is the registry's own dict, unless the call made since has registered the
\* id anew and so put another dict in its place
HeldNow ==
    IF caller.prev = None THEN None
    ELSE IF caller.prev[1].given = None THEN None
    ELSE IF /\ co[1].op = "register_workflow"
            /\ co[1].id = caller.prev[1].id
            /\ co[1].pc = "done"
         THEN caller.prev[1].given
         ELSE Some(_workflows[caller.prev[1].id])

CallerCall(op, id, arg) ==
    /\ Start(1, op, id, arg)
    /\ caller' = [ncalls |-> caller.ncalls + 1, prev |-> Given(co[1])]

\* the caller sets workflow["status"] in a dict get_workflow or
\* get_all_workflows has just returned: the dict is the registry's record
CallerWrites(p, id) ==
    /\ running = 0
    /\ co[p].pc = "done"
    /\ id \in DOMAIN _workflows
    /\ \/ /\ co[p].op = "get_workflow"
          /\ co[p].id = id
          /\ co[p].outcome = Returned(Some(_workflows[id]))
       \/ /\ co[p].op = "get_all_workflows"
          /\ co[p].outcome = Returned(get_all_workflows(_workflows))
    /\ _workflows[id].status # CANCELED
    /\ _workflows' = [_workflows EXCEPT ![id].status = CANCELED]
    /\ co' = [co EXCEPT ![p].outcome =
                IF co[p].op = "get_workflow"
                THEN Returned(Some(_workflows'[id]))
                ELSE Returned(get_all_workflows(_workflows'))]
    /\ UNCHANGED <<_lock, clock, running, caller>>

NextCaller ==
    \/ \E i \in Ids : CallerCall("register_workflow", i, "standard")
    \/ \E i \in Ids, st \in {RUNNING, COMPLETED} :
          CallerCall("update_workflow_status", i, st)
    \/ \E i \in Ids : \E task \in CallerTasks(i) :
          RoomForTask(i) /\ CallerCall("add_task_result", i, task)
    \/ \E i \in Ids : CallerCall("get_workflow", i, None)
    \/ CallerCall("get_all_workflows", "", None)
    \/ \E i \in Ids : CallerCall("get_workflow_status", i, None)
    \/ Acquire(1)
    \/ RegisterBody(1)
    \/ UpdateStatusBody(1)
    \/ AddTaskResultBody(1)
    \/ GetWorkflowBody(1)
    \/ GetAllBody(1)
    \/ StatusResult(1)
    \/ \E i \in Ids : CallerWrites(1, i)
    \/ Tick

SpecCaller == Init /\ [][NextCaller]_vars

\* readers polling the registry while run_workflow runs, each id being run
\* by one run_workflow call only
PollCalls(p) ==
    \/ \E i \in Ids, d \in Proposals :
          /\ i \notin DOMAIN _workflows
          /\ ManagerCall(p, "run_workflow", i, d)
    \/ \E i \in Ids : ManagerCall(p, "get_workflow_status", i, None)
    \/ \E i \in Ids : ManagerCall(p, "get_workflow", i, None)

NextPoll ==
    \/ \E p \in Procs :
          \/ PollCalls(p)
          \/ Acquire(p)
          \/ RegisterBody(p)
          \/ UpdateStatusBody(p)
          \/ AddTaskResultBody(p)
          \/ GetWorkflowBody(p)
          \/ Classify(p)
          \/ CallProcess(p)
          \/ \E out \in ProcessOutputs : ProcessReturns(p, out)
          \/ \E msg \in ProcessErrors : ProcessRaises(p, msg)
          \/ ProcessingTime(p)
          \/ ReturnResults(p)
          \/ Reraise(p)
          \/ StatusResult(p)
    \/ Tick

SpecPoll == Init /\ [][NextPoll]_vars

(***************************************************************************)
(* The Dispatch Surface (orchestrator/api.py): the route handlers over the *)
(* one OrchestrationManager of the process.                                *)
(***************************************************************************)
\* the three WorkflowStatus members a handler can find that are not COMPLETED
NotCompletedError(workflow_id, status) ==
    Exception("Workflow " \o workflow_id \o " is not completed (status: "
                 \o status \o ")", "api")

\* "not found" in str(e), on the messages the handlers raise: no id and no
\* status of the model holds these words, so only the not-found text does
ContainsNotFound(msg) ==
    \E i \in Ids : msg = "Workflow " \o i \o " not found"

\* dict.get(key, default)
Get(d, key, default) == IF key \in DOMAIN d THEN d[key] ELSE default

\* a faulty result dict that reads the market payload from "evaluation"
ResultDictSwapped(workflow_id, workflow) ==
    [proposal_id |-> workflow_id,
     workflow_type |-> workflow.type,
     processing_time_ms |->
        IF workflow.completed_at # None /\ workflow.completed_at[1] # 0
        THEN (workflow.completed_at[1] - workflow.created_at) * 1000 ELSE 0,
     compliance |-> Get(workflow.results, "compliance", EmptyDict),
     evaluation |-> Get(workflow.results, "evaluation", EmptyDict),
     market |-> Get(workflow.results, "evaluation", EmptyDict),
     recommendation |-> Get(workflow.results, "recommendation",
                            "No recommendation available")]

\* the dict get_workflow_result returns for a COMPLETED record
ResultDict(workflow_id, workflow) ==
    [proposal_id |-> workflow_id,
     workflow_type |-> workflow.type,
     processing_time_ms |->
        IF workflow.completed_at # None /\ workflow.completed_at[1] # 0
        THEN (workflow.completed_at[1] - workflow.created_at) * 1000 ELSE 0,
     compliance |-> Get(workflow.results, "compliance", EmptyDict),
     evaluation |-> Get(workflow.results, "evaluation", EmptyDict),
     market |-> Get(workflow.results, "market", EmptyDict),
     recommendation |-> Get(workflow.results, "recommendation",
                            "No recommendation available")]

\* get_workflow_result after its registry.get_workflow: the two ValueErrors
\* and their status codes, or the result dict
ResultResponse(p) ==
    /\ running = p
    /\ co[p].pc = "gr226"
    /\ LET e == IF co[p].workflow = None
                THEN NotFoundError(co[p].id)
                ELSE NotCompletedError(co[p].id, co[p].workflow[1].status)
       IN
       Finish(p, IF co[p].workflow = None
                    \/ co[p].workflow[1].status # COMPLETED
                 THEN Raised(HTTPException(
                         IF ContainsNotFound(str(e)) THEN 404 ELSE 400, str(e)))
                 ELSE Returned(ResultDict(co[p].id, co[p].workflow[1])))

\* the summaries OrchestrationManager.get_all_workflows makes of the records
ListSummaries(workflows) ==
    {[id |-> w.id, status |-> w.status, type |-> w.type,
      created_at |-> w.created_at, updated_at |-> w.updated_at,
      completed_at |-> w.completed_at, task_count |-> Len(w.tasks)] :
       w \in workflows}

\* list_workflows with its defaults (no status filter, first page)
ListResponse(p) ==
    /\ running = p
    /\ co[p].pc = "ga313"
    /\ Finish(p, Returned([workflows |-> ListSummaries(co[p].workflow),
                           count |-> Cardinality(co[p].workflow)]))

\* a faulty create_workflow that leaves the registration to the background
\* task
CreateClassifyUnregistered(p) ==
    /\ running = p
    /\ co[p].pc = "cr97"
    /\ LET r == determine_workflow_type(co[p].arg) IN
       IF r.ok
       THEN Step(p, [co[p] EXCEPT !.workflow_type = Some(r.value),
                                  !.pc = "cr117"])
       ELSE Finish(p, Raised(HTTPException(500, "Error creating workflow: "
                                                   \o str(r.value))))

\* create_workflow: the classification, on to the registration; what the
\* classification raises is answered 500
CreateClassify(p) ==
    /\ running = p
    /\ co[p].pc = "cr97"
    /\ LET r == determine_workflow_type(co[p].arg) IN
       IF r.ok
       THEN Step(p, [co[p] EXCEPT !.workflow_type = Some(r.value),
                                  !.pc = "cr100"])
       ELSE Finish(p, Raised(HTTPException(500, "Error creating workflow: "
                                                   \o str(r.value))))

\* the body create_workflow answers with
Accepted(workflow_id) ==
    [workflow_id |-> workflow_id, status |-> "accepted",
     message |-> "Workflow for proposal " \o workflow_id \o " has been started"]

\* create_workflow queues run_workflow_task and returns: the response goes
\* out and the task waits for the loop
CreateAccepted(p) ==
    /\ running = p
    /\ co[p].pc = "cr117"
    /\ co' = [co EXCEPT ![p].outcome = Returned(Accepted(co[p].id)),
                        ![p].pc = "bg108"]
    /\ running' = 0
    /\ UNCHANGED <<_workflows, _lock, clock, caller>>

\* the loop starts run_workflow_task: run_workflow from its first line, in
\* the frame of the request (what it returns or raises is dropped, Surface)
BackgroundStart(p) ==
    /\ running = 0
    /\ co[p].pc = "bg108"
    /\ co' = [Collected(co) EXCEPT ![p].pc = "rw212"]
    /\ running' = p
    /\ UNCHANGED <<_workflows, _lock, clock, caller>>

\* the requests of concurrent clients
ApiCalls(p) ==
    \/ \E i \in Ids, d \in Proposals :
          ManagerCall(p, "api.create_workflow", i, d)
    \/ \E i \in Ids :
          ManagerCall(p, "api.run_workflow_sync", i, [class |-> "standard"])
    \/ \E i \in Ids : ManagerCall(p, "api.get_workflow_status", i, None)
    \/ \E i \in Ids : ManagerCall(p, "api.cancel_workflow", i, None)
    \/ \E i \in Ids : ManagerCall(p, "api.get_workflow_result", i, None)
    \/ ManagerCall(p, "api.list_workflows", "", None)
    \/ ManagerCall(p, "cleanup_workflows", "", 0)

ApiSteps(p) ==
    \/ CreateClassify(p)
    \/ CreateAccepted(p)
    \/ BackgroundStart(p)
    \/ ResultResponse(p)
    \/ ListResponse(p)

\* the route handlers running concurrently on the event loop
NextApi ==
    \/ \E p \in Procs :
          \/ ApiCalls(p)
          \/ RegistrySteps(p)
          \/ GetAllBody(p)
          \/ ManagerSteps(p)
          \/ ApiSteps(p)
    \/ Tick

SpecApi == Init /\ [][NextApi]_vars

\* the response of run_workflow_sync a client holds: of the request that
\* finished last, as long as nothing ran since
SyncResponse ==
    IF \E q \in Procs : co[q].pc = "done" /\ co[q].op = "api.run_workflow_sync"
    THEN LET q == CHOOSE q \in Procs :
                    co[q].pc = "done" /\ co[q].op = "api.run_workflow_sync"
         IN Some([id |-> co[q].id, outcome |-> co[q].outcome[1]])
    ELSE None

\* one client sending a request after the answer to the one before, and
\* remembering the result of the synchronous run it got last
ClientCall(p, op, id, arg) ==
    /\ Quiescent
    /\ Start(p, op, id, arg)
    /\ caller' = [ncalls |-> caller.ncalls + 1, prev |-> SyncResponse]

ClientCalls(p) ==
    \/ \E i \in Ids, d \in Proposals :
          ClientCall(p, "api.run_workflow_sync", i, d)
    \/ \E i \in Ids : ClientCall(p, "api.get_workflow_result", i, None)
    \/ \E h \in MaxAges : ClientCall(p, "cleanup_workflows", "", h)

NextClient ==
    \/ \E p \in Procs :
          \/ ClientCalls(p)
          \/ RegistrySteps(p)
          \/ Classify(p)
          \/ CallProcess(p)
          \/ \E out \in ProcessOutputs : ProcessReturns(p, out)
          \/ \E msg \in ProcessErrors : ProcessRaises(p, msg)
          \/ ProcessingTime(p)
          \/ ReturnResults(p)
          \/ Reraise(p)
          \/ CleanupResult(p)
          \/ ResultResponse(p)
    \/ Tick

SpecClient == Init /\ [][NextClient]_vars

\* runs, cancels and cleanups of concurrent callers; every record is the
\* record of a run
LiveCalls(p) ==
    \/ \E i \in Ids :
          ManagerCall(p, "run_workflow", i, [class |-> "standard"])
    \/ \E i \in Ids : ManagerCall(p, "cancel_workflow", i, None)
    \/ ManagerCall(p, "cleanup_workflows", "", 0)

\* a step of coroutine p: of its own code, or the Stage Runner handing it a
\* result or an exception
TaskStep(p) ==
    \/ RegistrySteps(p)
    \/ Classify(p)
    \/ CallProcess(p)
    \/ \E out \in ProcessOutputs : ProcessReturns(p, out)
    \/ \E msg \in ProcessErrors : ProcessRaises(p, msg)
    \/ ProcessingTime(p)
    \/ ReturnResults(p)
    \/ Reraise(p)
    \/ CancelCheck(p)
    \/ CancelResult(p)
    \/ CleanupResult(p)

NextLive ==
    \/ \E p \in Procs : LiveCalls(p) \/ TaskStep(p)
    \/ Tick

\* the event loop runs every task that can run, and every Stage Runner
\* invocation returns or raises in the end
SpecLive ==
    Init /\ [][NextLive]_vars /\ \A p \in Procs : WF_vars(TaskStep(p))

\* the workflow whose Stage Runner invocation never comes back
HungId == "W1"

\* coroutine p awaits the Stage Runner for HungId
Hung(p) == co[p].pc = "rw224" /\ co[p].id = HungId

HungCalls(p) ==
    \/ \E i \in Ids :
          ManagerCall(p, "run_workflow", i, [class |-> "standard"])
    \/ \E i \in Ids : ManagerCall(p, "cancel_workflow", i, None)
    \/ \E i \in Ids : ManagerCall(p, "get_workflow_status", i, None)
    \/ ManagerCall(p, "cleanup_workflows", "", 0)

\* the Stage Runner returns to p, or raises, unless p awaits it for HungId
ReturnsUnlessHung(p) ==
    /\ ~ Hung(p)
    /\ \E out \in ProcessOutputs : ProcessReturns(p, out)

RaisesUnlessHung(p) ==
    /\ ~ Hung(p)
    /\ \E msg \in ProcessErrors : ProcessRaises(p, msg)

\* a step of coroutine p
HungStep(p) ==
    \/ RegistrySteps(p)
    \/ Classify(p)
    \/ CallProcess(p)
    \/ ReturnsUnlessHung(p)
    \/ RaisesUnlessHung(p)
    \/ ProcessingTime(p)
    \/ ReturnResults(p)
    \/ Reraise(p)
    \/ StatusResult(p)
    \/ CancelCheck(p)
    \/ CancelResult(p)
    \/ CleanupResult(p)

NextHung ==
    \/ \E p \in Procs : HungCalls(p) \/ HungStep(p)
    \/ Tick

\* the event loop runs every task that can run; the Stage Runner returns or
\* raises for every workflow but HungId
SpecHung ==
    Init /\ [][NextHung]_vars /\ \A p \in Procs : WF_vars(HungStep(p))

(***************************************************************************)
(* Properties.                                                             *)
(***************************************************************************)
\* frame f is inside the critical section of the registry method it called
\* itself as operation op
Inside(f, op) == f.op = op /\ f.pc = Entry(op) /\ f.inlock = "held"

\* the record a registration of (id, type) must leave
Fresh(r, id, type) ==
    /\ r.id = id
    /\ r.type = type
    /\ r.status = PENDING
    /\ r.tasks = <<>>
    /\ DOMAIN r.results = {}
    /\ r.completed_at = None

\* every record but that of id is the same before and after the step
OthersUnchanged(id) ==
    /\ DOMAIN _workflows' \ {id} = DOMAIN _workflows \ {id}
    /\ \A i \in DOMAIN _workflows \ {id} : _workflows'[i] = _workflows[i]

Stages == {"compliance", "evaluation", "market"}

StageItems(items) == {j \in 1..Len(items) : items[j][1] \in Stages}

\* tasks holds one "completed" task result per stage of items, and no other
OneTaskPerStage(tasks, items) ==
    /\ Len(tasks) = Cardinality(StageItems(items))
    /\ \A j \in StageItems(items) :
          \E t \in 1..Len(tasks) :
              /\ tasks[t].agent_type = items[j][1]
              /\ tasks[t].status = "completed"
              /\ tasks[t].result = Some(items[j][2])

\* C2: when the Stage Runner's process call returns a result, run_workflow
\* appends one "completed" task result for every stage in it, then sets the
\* status to COMPLETED, and returns an aggregated result with the same
\* compliance, evaluation and market payloads and the same recommendation.
C2_SuccessPath ==
    [][ \A p \in Procs :
          (co[p].op = "run_workflow" /\ co[p].results # None)
          => /\ (co[p].pc = "rw246" /\ co[p].inlock = "held")
                => /\ co[p].id \in DOMAIN _workflows
                   /\ OneTaskPerStage(_workflows[co[p].id].tasks,
                                      co[p].results[1])
                   /\ _workflows[co[p].id].status = RUNNING
                   /\ _workflows'[co[p].id].status = COMPLETED
             /\ co'[p].pc = "done"
                => /\ co'[p].outcome[1].kind = "return"
                   /\ \A j \in 1..Len(co[p].results[1]) :
                        co[p].results[1][j][1] \in Stages \cup {"recommendation"}
                        => co'[p].outcome[1].value[co[p].results[1][j][1]]
                              = co[p].results[1][j][2]
                   /\ _workflows'[co[p].id].status = COMPLETED
                   /\ OneTaskPerStage(_workflows'[co[p].id].tasks,
                                      co[p].results[1]) ]_vars

\* a run_workflow has returned the result of a Stage Runner that handed back
\* a "workflow" key and two stages, one of them with an empty payload
C2_Witness ==
    \E p \in Procs :
        /\ co[p].op = "run_workflow"
        /\ co[p].pc = "done"
        /\ co[p].outcome[1].kind = "return"
        /\ co[p].outcome[1].value.recommendation = "Recommend rejection"
        /\ co[p].outcome[1].value.evaluation = EmptyDict
        /\ _workflows[co[p].id].status = COMPLETED
        /\ Len(_workflows[co[p].id].tasks) = 2

\* C3: over any sequence of update_workflow_status calls on an existing id,
\* completed_at is set by the first transition to COMPLETED or FAILED and no
\* later update_workflow_status call changes it.
C3_CompletedAtSetOnce ==
    [][ ( /\ Inside(co[1], "update_workflow_status")
          /\ co[1].id \in DOMAIN _workflows )
        => /\ co[1].id \in DOMAIN _workflows'
           /\ IF _workflows[co[1].id].completed_at # None
              THEN _workflows'[co[1].id].completed_at
                       = _workflows[co[1].id].completed_at
              ELSE _workflows'[co[1].id].completed_at
                       = IF co[1].arg \in {COMPLETED, FAILED}
                         THEN Some(clock) ELSE None ]_vars

\* the edges of the state machine of a workflow
Edges == {<<PENDING, RUNNING>>, <<RUNNING, COMPLETED>>, <<RUNNING, FAILED>>,
          <<RUNNING, CANCELED>>, <<RUNNING, TIMEOUT>>}

\* the step is a registration of id: a new life of its record begins
Registering(id) ==
    \E p \in Procs :
        /\ running = p
        /\ co[p].inlock = "held"
        /\ CallSite(co[p]).fn = "register_workflow"
        /\ CallSite(co[p]).id = id

\* C4: within the life of one record every change of its status follows an
\* edge PENDING -> RUNNING, RUNNING -> COMPLETED | FAILED | CANCELED |
\* TIMEOUT, under any interleaving of run_workflow, cancel_workflow and
\* queries; nothing leaves COMPLETED, FAILED or CANCELED.
C4_StatusFollowsEdges ==
    [][ \A i \in DOMAIN _workflows \cap DOMAIN _workflows' :
          (~ Registering(i) /\ _workflows'[i].status # _workflows[i].status)
          => <<_workflows[i].status, _workflows'[i].status>> \in Edges ]_vars

\* C5: cancel_workflow on a PENDING workflow fails with an invalid-state
\* error and leaves the status PENDING; on a RUNNING workflow it succeeds,
\* setting the status to CANCELED; on the now CANCELED workflow it fails with
\* an invalid-state error and leaves the record unchanged.
C5_CancelByStatus ==
    [][ \A p \in Procs :
          ( /\ co[p].op = "cancel_workflow"
            /\ running = p
            /\ co[p].id \in DOMAIN _workflows )
          => /\ co[p].pc \in {"cw336", "cw338"} => _workflows' = _workflows
             /\ ( /\ co[p].pc = "cw338"
                  /\ _workflows[co[p].id].status \in {PENDING, CANCELED} )
                => /\ co'[p].pc = "done"
                   /\ co'[p].outcome =
                        Raised(Exception("Cannot cancel workflow with status "
                                            \o _workflows[co[p].id].status,
                                         "manager"))
             /\ (co[p].pc = "cw338" /\ _workflows[co[p].id].status = RUNNING)
                => co'[p].pc = "cw345"
             /\ (co[p].pc = "cw345" /\ co[p].inlock = "held")
                => /\ _workflows[co[p].id].status = RUNNING
                   /\ _workflows'[co[p].id].status = CANCELED
                   /\ OthersUnchanged(co[p].id)
             /\ (co'[p].pc = "done" /\ co'[p].outcome[1].kind = "return")
                => /\ _workflows'[co[p].id].status = CANCELED
                   /\ co'[p].outcome[1].value.status = CANCELED ]_vars

\* a cancel_workflow has failed on a workflow that an earlier cancel_workflow
\* had canceled while its run was suspended in the Stage Runner
C5_Witness ==
    \E p, q \in Procs :
        /\ co[p].op = "cancel_workflow"
        /\ co[p].pc = "done"
        /\ co[p].found
        /\ co[p].outcome[1].kind = "raise"
        /\ _workflows[co[p].id].status = CANCELED
        /\ co[q].op = "run_workflow"
        /\ co[q].pc = "rw224"
        /\ co[q].id = co[p].id

\* C6: register followed immediately by get, for the same id, returns a
\* record with that id and the registered type, status PENDING, an empty
\* tasks list, an empty results map and completed_at unset.
C6_RegisterThenGet ==
    ( /\ co[1].op = "get_workflow"
      /\ co[1].pc = "done"
      /\ caller.prev # None
      /\ caller.prev[1].op = "register_workflow"
      /\ caller.prev[1].id = co[1].id )
    => /\ co[1].outcome # None
       /\ co[1].outcome[1].kind = "return"
       /\ co[1].outcome[1].value # None
       /\ Fresh(co[1].outcome[1].value[1], co[1].id, caller.prev[1].arg)

\* a get that directly follows the registration of "W2" as expedited has
\* returned a record, while the registry holds another record too
C6_Witness ==
    /\ co[1].op = "get_workflow"
    /\ co[1].pc = "done"
    /\ co[1].id = "W2"
    /\ caller.prev = Some([op |-> "register_workflow", id |-> "W2",
                           arg |-> "expedited", found |-> FALSE])
    /\ co[1].outcome[1].value # None
    /\ "W1" \in DOMAIN _workflows

\* C7: update_workflow_status and add_task_result on an id that has no
\* record return normally, create no record for it and leave every other
\* record unchanged.
C7_AbsentIdIsNoOp ==
    [][ ( /\ \/ Inside(co[1], "update_workflow_status")
             \/ Inside(co[1], "add_task_result")
          /\ co[1].id \notin DOMAIN _workflows )
        => /\ _workflows' = _workflows
           /\ co'[1].pc = "done"
           /\ co'[1].outcome = Returned(None) ]_vars

\* add_task_result on the absent "W2" has returned, right after
\* update_workflow_status on the absent "W2", and the record of "W1" is there
C7_Witness ==
    /\ co[1].op = "add_task_result"
    /\ co[1].pc = "done"
    /\ co[1].id = "W2"
    /\ ~ co[1].found
    /\ co[1].outcome = Returned(None)
    /\ caller.prev # None
    /\ caller.prev[1].op = "update_workflow_status"
    /\ caller.prev[1].id = "W2"
    /\ ~ caller.prev[1].found
    /\ DOMAIN _workflows = {"W1"}

\* the calls that look an id up
QueryOps == {"get_workflow", "get_workflow_status", "cancel_workflow"}

\* the text of the not-found error for id
NotFoundText(id) == "Workflow " \o id \o " not found"

C9_ReRegisterReplaces ==
    [][ ( /\ Inside(co[1], "register_workflow")
          /\ co[1].id \in DOMAIN _workflows )
        => /\ co[1].id \in DOMAIN _workflows'
           /\ Fresh(_workflows'[co[1].id], co[1].id, co[1].arg)
           /\ OthersUnchanged(co[1].id) ]_vars

\* "W1" was registered again right after add_task_result had given its
\* record a task and a result
C9_Witness ==
    /\ co[1].op = "register_workflow"
    /\ co[1].pc = "done"
    /\ co[1].id = "W1"
    /\ co[1].found
    /\ caller.prev # None
    /\ caller.prev[1].op = "add_task_result"
    /\ caller.prev[1].id = "W1"
    /\ caller.prev[1].found
    /\ Truthy(caller.prev[1].arg.result)
    /\ _workflows["W1"].tasks = <<>>

\* the records older than max_age_hours hours at the time of the call
Older(max_age_hours) ==
    {i \in DOMAIN _workflows :
        clock - _workflows[i].created_at > max_age_hours * 60 * 60}

\* C10: cleanup(max_age) removes exactly the records whose created_at is
\* older than max_age at the time of the call, keeps every other record
\* unchanged and returns the number of records it removed.
C10_CleanupRemovesOld ==
    [][ ( /\ co[1].op = "cleanup_old_workflows"
          /\ co[1].pc = "cl160"
          /\ co[1].inlock = "held" )
        => /\ DOMAIN _workflows' = DOMAIN _workflows \ Older(co[1].arg)
           /\ \A i \in DOMAIN _workflows' : _workflows'[i] = _workflows[i]
           /\ co'[1].pc = "done"
           /\ co'[1].outcome = Returned(Cardinality(Older(co[1].arg))) ]_vars

\* a cleanup with max_age 0 has removed the one record that was an hour old
\* and kept the one registered at the time of the call
C10_Witness ==
    /\ co[1].op = "cleanup_old_workflows"
    /\ co[1].pc = "done"
    /\ co[1].arg = 0
    /\ co[1].outcome = Returned(1)
    /\ Cardinality(DOMAIN _workflows) = 1
    /\ \A i \in DOMAIN _workflows : _workflows[i].created_at = clock

\* the pcs of run_workflow after its registration and its RUNNING write
AfterRegistration == {"rw221", "rw224", "rw231", "rw243", "rw246", "rw249",
                      "rw263", "rw272", "rw275"}

\* C18: when cleanup has removed the record of an in-flight run_workflow,
\* the run's remaining update_workflow_status and add_task_result calls are
\* silent no-ops, the record is not created again, and the run ends as it
\* would have: the aggregated result returned, or the error raised again.
C18_RunOutlivesItsRecord ==
    [][ \A p \in Procs :
          ( /\ running = p
            /\ co[p].op = "run_workflow"
            /\ co[p].pc \in AfterRegistration
            /\ co[p].workflow_type # None
            /\ co[p].id \notin DOMAIN _workflows )
          => /\ _workflows' = _workflows
             /\ co'[p].pc = "done"
                => IF co[p].exc # None
                   THEN co'[p].outcome = Raised(co[p].exc[1])
                   ELSE /\ co'[p].outcome[1].kind = "return"
                        /\ co'[p].outcome[1].value.proposal_id = co[p].id
                        /\ \A j \in 1..Len(co[p].results[1]) :
                             co[p].results[1][j][1]
                                 \in Stages \cup {"recommendation"}
                             => co'[p].outcome[1].value[co[p].results[1][j][1]]
                                   = co[p].results[1][j][2] ]_vars

\* a run_workflow has returned its result although a cleanup had removed its
\* record while it was suspended in the Stage Runner
C18_Witness ==
    \E p \in Procs :
        /\ co[p].op = "run_workflow"
        /\ co[p].pc = "done"
        /\ ~ co[p].found
        /\ co[p].outcome[1].kind = "return"
        /\ co[p].outcome[1].value.compliance = PayloadCompliant
        /\ _workflows = EmptyDict

\* C20: within the life of a record the tasks list never gets shorter (what
\* it held stays, in place) and no key leaves the results map: entries are
\* only added or overwritten.
C20_TasksAndResultsGrow ==
    [][ \A i \in DOMAIN _workflows \cap DOMAIN _workflows' :
          ~ Registering(i)
          => /\ Len(_workflows'[i].tasks) >= Len(_workflows[i].tasks)
             /\ SubSeq(_workflows'[i].tasks, 1, Len(_workflows[i].tasks))
                   = _workflows[i].tasks
             /\ DOMAIN _workflows[i].results
                   \subseteq DOMAIN _workflows'[i].results ]_vars

\* a record holds the tasks of two runs of its id and a result for each of
\* the three stages
C20_Witness ==
    \E i \in DOMAIN _workflows :
        /\ Len(_workflows[i].tasks) >= 4
        /\ DOMAIN _workflows[i].results = Stages

\* reader q is reading the record of id: it is inside get_workflow
ReadOf(q, id) ==
    /\ running = q
    /\ co[q].op \in {"get_workflow", "get_workflow_status"}
    /\ co[q].inlock = "held"
    /\ co[q].id = id

\* the run_workflow calls on id that have registered it and not yet ended
RunsInFlight(id) ==
    {p \in Procs : /\ co[p].op = "run_workflow"
                   /\ co[p].id = id
                   /\ co[p].workflow_type # None
                   /\ co[p].pc # "done"}

\* C13: a reader polling the registry while a single run_workflow call
\* writes an id sees the run's mutations in issue order (register, RUNNING,
\* the task results, the terminal status): once the run has registered the
\* reader finds the record, never tasks on a PENDING record, and with the
\* terminal status every task result the run appends.
C13_ReaderSeesIssueOrder ==
    [][ \A q \in Procs, i \in Ids :
          ReadOf(q, i)
          => /\ RunsInFlight(i) # {} => i \in DOMAIN _workflows
             /\ i \in DOMAIN _workflows
                => /\ RunsInFlight(i) # {}
                      => /\ _workflows[i].status = RUNNING
                         /\ _workflows[i].tasks = <<>>
                   /\ RunsInFlight(i) = {}
                      => _workflows[i].status \in {COMPLETED, FAILED}
                   /\ _workflows[i].status = COMPLETED
                      => \E out \in ProcessOutputs :
                            OneTaskPerStage(_workflows[i].tasks, out)
                   /\ _workflows[i].status = FAILED
                      => /\ Len(_workflows[i].tasks) = 1
                         /\ _workflows[i].tasks[1].status = "failed"
                   /\ co'[q].op = "get_workflow"
                      => co'[q].outcome = Returned(Some(_workflows[i]))
                   /\ co'[q].op = "get_workflow_status"
                      => co'[q].workflow = Some(_workflows[i]) ]_vars

\* a reader has been given the RUNNING record of a run that is suspended in
\* the Stage Runner
C13_Witness ==
    \E p, q \in Procs :
        /\ co[p].op = "run_workflow"
        /\ co[p].pc = "rw224"
        /\ co[q].op = "get_workflow_status"
        /\ co[q].pc = "done"
        /\ co[q].id = co[p].id
        /\ co[q].outcome[1].kind = "return"
        /\ co[q].outcome[1].value.status = RUNNING
        /\ co[q].outcome[1].value.task_count = 0

\* C15: callers of get and list receive copies or read-only views: a value
\* get returned is not changed by a later registry mutation, and nothing the
\* caller does to a value get or list returned changes the registry's
\* record.
C15_ReturnedValuesAreCopies ==
    [][ /\ \A i \in Ids : CallerWrites(1, i) => _workflows' = _workflows
        /\ (caller'.prev # None /\ caller'.prev[1].given # None)
           => HeldNow' = caller'.prev[1].given ]_vars

\* C19: for an existing id get_workflow_status returns the record's status,
\* type and timestamps, a task count equal to the length of its tasks list,
\* and its results map without the key "recommendation", every other key
\* kept with its value.
C19_StatusOfExistingId ==
    [][ \A p \in Procs :
          ( /\ running = p
            /\ co[p].op = "get_workflow_status"
            /\ co[p].pc = "gs289"
            /\ co[p].id \in DOMAIN _workflows )
          => /\ co'[p].pc = "done"
             /\ co'[p].outcome[1].kind = "return"
             /\ LET r == co'[p].outcome[1].value
                    w == _workflows[co[p].id]
                IN /\ r.id = co[p].id
                   /\ r.status = w.status
                   /\ r.type = w.type
                   /\ r.created_at = w.created_at
                   /\ r.updated_at = w.updated_at
                   /\ r.completed_at = w.completed_at
                   /\ r.task_count = Len(w.tasks)
                   /\ DOMAIN r.results = DOMAIN w.results \ {"recommendation"}
                   /\ \A k \in DOMAIN r.results : r.results[k] = w.results[k]
      ]_vars

\* get_workflow_status has answered for a record whose results map holds
\* only the key "recommendation"
C19_Witness ==
    /\ co[1].op = "get_workflow_status"
    /\ co[1].pc = "done"
    /\ co[1].outcome[1].kind = "return"
    /\ co[1].outcome[1].value.task_count = 1
    /\ DOMAIN co[1].outcome[1].value.results = {}
    /\ DOMAIN _workflows[co[1].id].results = {"recommendation"}

\* a request of the Dispatch Surface that has been answered by p
ApiAnswered(p, op) ==
    co[p].op = op /\ co[p].pc = "done" /\ co[p].outcome # None

\* p was answered with an HTTPException of this status code
HttpError(p, status_code) ==
    /\ co[p].outcome[1].kind = "raise"
    /\ co[p].outcome[1].value.status_code = status_code

\* C17: at the Dispatch Surface a request for an id without a record
\* (get-status, cancel, get-result) is answered 404, and a cancel of a
\* record that is not RUNNING is answered 400.
C17_NotFoundAndInvalidState ==
    \A p \in Procs :
       /\ \A op \in {"api.get_workflow_status", "api.cancel_workflow",
                     "api.get_workflow_result"} :
             ApiAnswered(p, op) /\ co[p].workflow = None => HttpError(p, 404)
       /\ ApiAnswered(p, "api.cancel_workflow") /\ co[p].workflow # None
             => (co[p].workflow[1].status # RUNNING => HttpError(p, 400))

\* p has answered a get-result for the id whose synchronous run returned
\* the response the client holds
ResultAfterRun(p) ==
    /\ ApiAnswered(p, "api.get_workflow_result")
    /\ caller.prev # None
    /\ caller.prev[1].id = co[p].id
    /\ caller.prev[1].outcome.kind = "return"

\* the run handed back a payload for each of the three stages
ThreeStages(v) ==
    v.compliance # EmptyDict /\ v.evaluation # EmptyDict /\ v.market # EmptyDict

\* C11: after a run that completed with results of the compliance, the
\* evaluation and the market stage, get-result for the id returns exactly
\* these three payloads, and a recommendation string that is not empty.
C11_ResultRoundTrip ==
    \A p \in Procs :
       ResultAfterRun(p) /\ ThreeStages(caller.prev[1].outcome.value) =>
          /\ co[p].outcome[1].kind = "return"
          /\ LET r == co[p].outcome[1].value
                 v == caller.prev[1].outcome.value
             IN /\ r.compliance = v.compliance
                /\ r.evaluation = v.evaluation
                /\ r.market = v.market
                /\ r.recommendation # ""

C11_Witness ==
    \E p \in Procs :
       /\ ResultAfterRun(p)
       /\ ThreeStages(caller.prev[1].outcome.value)
       /\ co[p].outcome[1].kind = "return"
       /\ co[p].outcome[1].value.market = PayloadMarket

\* C12: get-result for a COMPLETED workflow returns the recommendation
\* string that run_workflow returned for that run.
C12_SameRecommendation ==
    \A p \in Procs :
       ResultAfterRun(p) /\ co[p].outcome[1].kind = "return" =>
          co[p].outcome[1].value.recommendation
             = caller.prev[1].outcome.value.recommendation

\* create_workflow in frame p returns "accepted" in this step
Accepts(p) ==
    /\ co[p].op = "api.create_workflow"
    /\ co[p].outcome = None
    /\ co'[p].outcome = Returned(Accepted(co[p].id))

\* C16: create registers at once and answers "accepted" before the
\* background execution: when "accepted" is returned the registry has a
\* record for the id (a status query finds it), and the background task has
\* not yet run a line.
C16_AcceptedOnceRegistered ==
    [][\A p \in Procs :
          Accepts(p) =>
             /\ get_workflow(_workflows', co[p].id) # None
             /\ co'[p].pc = "bg108"
             /\ running' = 0]_vars

\* a status query answered with the PENDING record of an accepted request
\* whose background task has not started
C16_Witness ==
    \E p, q \in Procs :
       /\ ApiAnswered(p, "api.get_workflow_status")
       /\ co[p].outcome[1].kind = "return"
       /\ co[p].outcome[1].value.status = PENDING
       /\ co[q].op = "api.create_workflow"
       /\ co[q].pc = "bg108"
       /\ co[q].outcome = Returned(Accepted(co[p].id))

\* the coroutines inside a critical section of the registry
Holders == {p \in Procs : co[p].inlock = "held"}

\* C14: every registry operation (register, update_status, add_task_result,
\* get, list, cleanup) is one atomic step under the single guard: at most
\* one coroutine is inside, the guard is held exactly while one is, the
\* step of the coroutine inside is its whole operation (it is outside and
\* the guard free after it, so it never acquires while holding), and the
\* registry changes in no other step, so that no reader sees a record
\* between two writes of one operation.
C14_OneAtomicStepUnderGuard ==
    [][/\ Cardinality(Holders) <= 1
       /\ _lock <=> Holders # {}
       /\ \A p \in Holders :
             /\ running = p
             /\ co'[p].inlock = "no"
             /\ ~ _lock'
             /\ \A q \in Procs \ {p} : co'[q] = co[q]
       /\ Holders = {} => _workflows' = _workflows]_vars

\* a list or a cleanup is inside the guard while the run of another request
\* is suspended
C14_Witness ==
    \E p, q \in Procs :
       /\ p # q
       /\ co[p].inlock = "held"
       /\ CallSite(co[p]).fn \in {"get_all_workflows", "cleanup_old_workflows"}
       /\ co[q].pc = "rw224"

\* C21: in every reachable state every record of the registry has
\* updated_at >= created_at.
C21_UpdatedNotBeforeCreated ==
    \A i \in DOMAIN _workflows :
       _workflows[i].updated_at >= _workflows[i].created_at

\* a record that was updated at a later clock reading than it was created
C21_Witness ==
    \E i \in DOMAIN _workflows :
       /\ _workflows[i].status # PENDING
       /\ _workflows[i].updated_at > _workflows[i].created_at

\* cancel_workflow in frame p has passed its test of the status
PastCancelTest(p) ==
    co[p].op = "cancel_workflow" /\ co[p].pc \in {"cw345", "cw348"}

\* C22: under every interleaving of cancel_workflow with run_workflow and
\* with other cancels of the id, the write of a cancel finds the record
\* RUNNING (never COMPLETED, FAILED, PENDING or CANCELED, and never gone),
\* and no two cancels of one id are past the test at a time, so that two
\* concurrent cancels of one RUNNING workflow do not both succeed.
C22_CancelWritesOntoRunning ==
    [][/\ \A p \in Procs :
             PastCancelTest(p) /\ co[p].inlock = "held" =>
                /\ co[p].id \in DOMAIN _workflows
                /\ _workflows[co[p].id].status = RUNNING
                /\ _workflows'[co[p].id].status = CANCELED
       /\ \A p, q \in Procs :
             PastCancelTest(p) /\ PastCancelTest(q) /\ co[p].id = co[q].id
                => p = q]_vars

\* a second cancel of a workflow whose run is in flight was refused, the
\* record being CANCELED by the first
C22_Witness ==
    \E p, q \in Procs :
       /\ co[p].op = "cancel_workflow"
       /\ co[p].pc = "done"
       /\ co[p].outcome = Raised(InvalidStateError(CANCELED))
       /\ co[q].op = "run_workflow"
       /\ co[q].pc = "rw224"
       /\ co[q].id = co[p].id
       /\ _workflows[co[p].id].status = CANCELED

\* run_workflow in frame p is inside the critical section of its terminal
\* write (COMPLETED at line 246, FAILED at line 263)
AtTerminalWrite(p) ==
    /\ co[p].op = "run_workflow"
    /\ co[p].pc \in {"rw246", "rw263"}
    /\ co[p].inlock = "held"
    /\ co[p].id \in DOMAIN _workflows

\* C23: cancellation is advisory.  The write of a cancel leaves the frame of
\* every run as it is (a run awaiting the Stage Runner keeps awaiting it),
\* and the terminal write of a run puts COMPLETED (FAILED after a failure)
\* over whatever status it finds, CANCELED included.
C23_CancelIsAdvisory ==
    [][/\ \A q \in Procs :
             PastCancelTest(q) /\ co[q].inlock = "held" =>
                \A p \in Procs \ {q} : co'[p] = co[p]
       /\ \A p \in Procs :
             AtTerminalWrite(p) =>
                _workflows'[co[p].id].status
                   = (IF co[p].pc = "rw246" THEN COMPLETED ELSE FAILED)]_vars

\* a run whose Stage Runner has returned all its results is at its terminal
\* write, and the record is CANCELED
C23_Witness ==
    \E p \in Procs :
       /\ AtTerminalWrite(p)
       /\ co[p].pc = "rw246"
       /\ _workflows[co[p].id].status = CANCELED
       /\ Len(_workflows[co[p].id].tasks) > 0

\* no record is PENDING or RUNNING
AllAtRest ==
    \A i \in DOMAIN _workflows : _workflows[i].status \notin {PENDING, RUNNING}

\* C24: when every Stage Runner invocation returns or raises and the tasks
\* are scheduled fairly, every record of a run that cleanup has not removed
\* leaves PENDING and RUNNING for good: from some point on every record is
\* in a terminal status.
C24_RunsComeToRest == <>[]AllAtRest

\* the runs are over; one record rests COMPLETED and one FAILED
C24_Witness ==
    /\ Quiescent
    /\ \E i, j \in DOMAIN _workflows :
          /\ _workflows[i].status = COMPLETED
          /\ _workflows[j].status = FAILED

\* the guard is free whenever no coroutine runs, and no suspended coroutine
\* is inside a critical section
GuardFreeWhileSuspended ==
    /\ running = 0 => ~ _lock
    /\ \A p \in Procs : co[p].pc = "rw224" => co[p].inlock = "no"

\* every request has been answered but the runs that await the Stage Runner
\* for HungId
OnlyHungLeft == \A p \in Procs : Free(co[p]) \/ Hung(p)

\* C25: the guard is never held while a task is suspended on the Stage
\* Runner, and a run whose Stage Runner invocation never returns blocks
\* only its own task: every other run, query, cancel and cleanup, with the
\* registry operations it makes, completes.
C25_HungRunBlocksOnlyItself ==
    [](GuardFreeWhileSuspended /\ <>OnlyHungLeft)

\* while the run of HungId awaits its Stage Runner, a run of another id has
\* completed
C25_Witness ==
    \E p, q \in Procs :
       /\ Hung(p)
       /\ co[q].op = "run_workflow"
       /\ co[q].pc = "done"
       /\ co[q].id # HungId
       /\ co[q].outcome[1].kind = "return"
       /\ _workflows[co[q].id].status = COMPLETED

\* the task carries a result that is not empty
HasResult(task) == task.result # None /\ task.result[1] # EmptyDict

\* C26: add_task_result on an existing id appends the task to the end of
\* tasks; if the task carries a non-empty result, results[agent_type]
\* becomes that result and no other key changes; otherwise (no result, as
\* the orchestrator error task, or an empty one) results is unchanged; status
\* and completed_at are unchanged in both cases.
C26_AddTaskResultEffect ==
    [][ ( /\ Inside(co[1], "add_task_result")
          /\ co[1].id \in DOMAIN _workflows )
        => LET old == _workflows[co[1].id]
               new == _workflows'[co[1].id]
               task == co[1].arg
           IN /\ new.tasks = old.tasks \o <<task>>
              /\ IF HasResult(task)
                 THEN /\ DOMAIN new.results
                            = DOMAIN old.results \cup {task.agent_type}
                      /\ new.results[task.agent_type] = task.result[1]
                      /\ \A k \in DOMAIN old.results \ {task.agent_type} :
                            new.results[k] = old.results[k]
                 ELSE new.results = old.results
              /\ new.status = old.status
              /\ new.completed_at = old.completed_at ]_vars

\* a record that got a compliance task with a payload and then the error
\* task without one
C26_Witness ==
    \E i \in DOMAIN _workflows :
       LET r == _workflows[i] IN
       /\ Len(r.tasks) = 2
       /\ r.tasks[1].agent_type = "compliance"
       /\ r.tasks[2].agent_type = "orchestrator"
       /\ r.tasks[2].result = None
       /\ DOMAIN r.results = {"compliance"}
       /\ r.results["compliance"] = r.tasks[1].result[1]

\* C27: in every reachable state a record whose completed_at is set has
\* status COMPLETED or FAILED (a PENDING, RUNNING or CANCELED record has
\* completed_at unset).
C27_CompletedAtOnlyWhenTerminal ==
    \A i \in DOMAIN _workflows :
       _workflows[i].completed_at # None =>
          _workflows[i].status \in {COMPLETED, FAILED}

\* a canceled record without completed_at beside a COMPLETED one with it
C27_Witness ==
    \E i, j \in DOMAIN _workflows :
       /\ _workflows[i].status = CANCELED
       /\ _workflows[i].completed_at = None
       /\ _workflows[j].status = COMPLETED
       /\ _workflows[j].completed_at # None

\* the tasks of record r hold a failed "orchestrator" error task
HasErrorTask(r) ==
    \E k \in 1..Len(r.tasks) :
       /\ r.tasks[k].agent_type = "orchestrator"
       /\ r.tasks[k].status = "failed"
       /\ r.tasks[k].error # None

\* C28: a record with status FAILED holds the failed "orchestrator" error
\* task, but while the failing run itself is between its FAILED write and
\* its add of the error task; the run is then the running coroutine, so no
\* other coroutine reads the record in that state.
C28_FailedHasErrorTask ==
    \A i \in DOMAIN _workflows :
       _workflows[i].status = FAILED /\ ~ HasErrorTask(_workflows[i]) =>
          \E p \in Procs :
             /\ running = p
             /\ co[p].op = "run_workflow"
             /\ co[p].pc = "rw272"
             /\ co[p].id = i

\* a status query was answered FAILED for a record that holds the error task
C28_Witness ==
    \E p \in Procs :
       /\ co[p].op = "get_workflow_status"
       /\ co[p].pc = "done"
       /\ co[p].outcome[1].kind = "return"
       /\ co[p].outcome[1].value.status = FAILED
       /\ co[p].outcome[1].value.task_count > 0
       /\ co[p].id \in DOMAIN _workflows
       /\ HasErrorTask(_workflows[co[p].id])

\* C29: under any interleaving of run_workflow calls, calls for one id
\* included, the task ids of a record are unique (at most one task result
\* per stage name).
C29_OneTaskPerStageName ==
    \A i \in DOMAIN _workflows :
       \A j, k \in 1..Len(_workflows[i].tasks) :
          _workflows[i].tasks[j].task_id = _workflows[i].tasks[k].task_id
             => j = k

\* run_workflow in frame p is running and has no classification: it is at
\* its first line, or in its except clause after the classification raised
Unclassified(p) ==
    /\ running = p
    /\ co[p].op = "run_workflow"
    /\ co[p].workflow_type = None

\* C30: a run_workflow whose classification raises changes nothing in the
\* registry: it creates no record, and a record the id has from an earlier
\* run keeps its status, tasks and completed_at.
C30_FailedClassificationLeavesRegistry ==
    [][\A p \in Procs : Unclassified(p) => _workflows' = _workflows]_vars

\* C31: register, update_status and add_task_result, called directly or by
\* run_workflow and cancel_workflow for an id, change the record of no other
\* id, under any interleaving; only the cleanup touches the records of
\* several ids in one step (it removes, and changes none that stays), and
\* the registry changes in no step outside these operations.
C31_IsolationBetweenIds ==
    [][/\ \A p \in Holders :
             IF CallSite(co[p]).fn = "cleanup_old_workflows"
             THEN /\ DOMAIN _workflows' \subseteq DOMAIN _workflows
                  /\ \A i \in DOMAIN _workflows' : _workflows'[i] = _workflows[i]
             ELSE /\ CallSite(co[p]).id = co[p].id
                  /\ OthersUnchanged(co[p].id)
       /\ Holders = {} => _workflows' = _workflows]_vars

\* a run is adding a task result to the record of its id while the record
\* of another id holds the task results of its own run
C31_Witness ==
    \E p \in Procs :
       /\ co[p].op = "run_workflow"
       /\ co[p].inlock = "held"
       /\ CallSite(co[p]).fn = "add_task_result"
       /\ co[p].id \in DOMAIN _workflows
       /\ \E j \in DOMAIN _workflows \ {co[p].id} :
             Len(_workflows[j].tasks) > 0

====
